---- MODULE Spec2Model ----
(***************************************************************************)
(* Library catalog: the book service (domain/services/book_service.py, and *)
(* the availability operations of book_service_v2.py), the repositories    *)
(* (data/repositories) and the books table (data/models/book.py), run by   *)
(* concurrent requests, each with its own database session                 *)
(* (core/database.py get_db).                                               *)
(*                                                                         *)
(* A step of the model is one database round trip of a request (a SELECT,  *)
(* a flush, a commit) or the outbound enrichment call, together with the   *)
(* synchronous code that follows it up to the next await.  The database is *)
(* PostgreSQL at its default READ COMMITTED isolation: a SELECT sees the   *)
(* committed rows, a flushed write is private to its session until commit, *)
(* and a write that meets a row or a unique key another open transaction   *)
(* has written waits for that transaction to end.                          *)
(*                                                                         *)
(* Optional values are sets of at most one element: {} is None.            *)
(* Strings that the code inspects (titles, ISBNs) are sequences of         *)
(* characters.                                                             *)
(***************************************************************************)
EXTENDS Integers, Sequences, FiniteSets, TLC

VARIABLES db, session, req, now, next_id, query, started, deleted, marked, failed,
          call, opened, clients

vars == <<db, session, req, now, next_id, query, started, deleted, marked, failed,
          call, opened, clients>>

-----------------------------------------------------------------------------
(* Bounds of the model *)

\* requests in flight at the same time, each with its own session
NumReq == 2
\* requests served in a run
MaxRequests == 2

\* datetime.now().year
current_year == 2026

Req == 1..NumReq

-----------------------------------------------------------------------------
(* Program constants *)

YEAR_LOW == 1000
YEAR_MAX == 2100
PAGES_MIN == 1
PAGES_MAX == 10000
ISBN_MIN_LENGTH == 10
ISBN_MAX_LENGTH == 20

The(s) == CHOOSE x \in s : TRUE

Digits == {"0", "1", "2", "3", "4", "5", "6", "7", "8", "9"}

\* the methods class BookMapper defines
BookMapperMethods ==
    {"create_to_model", "update_to_model", "model_to_response",
     "models_to_responses", "validate_book_year"}

\* the NOT NULL columns of table books
NotNullColumns == {"title", "author", "year", "genre", "pages"}

\* the fields of BookUpdate (domain/schemas/book.py)
UpdateFields ==
    {"title", "author", "year", "genre", "pages", "isbn", "description"}

\* the nullable columns, kept as optional values in a row
NullableColumns == {"isbn", "description", "extra"}

-----------------------------------------------------------------------------
(* Sample values *)

TitleAb == <<"A", "b">>
TitleC == <<"c">>
AuthorX == <<"x">>
IsbnA == <<"0", "3", "0", "6", "4", "0", "6", "1", "5", "2">>
IsbnShort == <<"1", "2", "3">>
IsbnEmpty == <<>>

BaseBook ==
    [title |-> TitleAb, author |-> AuthorX, year |-> current_year,
     genre |-> "Novel", pages |-> 10, isbn |-> {}, description |-> {}]

With(d, f, v) == [d EXCEPT ![f] = v]

-----------------------------------------------------------------------------
(* Exceptions and validation (domain/exceptions.py, BookService) *)

\* BookAlreadyExistsException.__init__(self, title, author, year, details=None):
\* constructing it with nargs positional arguments
BookAlreadyExistsException(nargs) ==
    IF nargs \in {3, 4} THEN "BookAlreadyExistsException" ELSE "TypeError"

\* a faulty _validate_year: the comparison with the current year left out
_validate_year_no_upper(year) ==
    IF year < YEAR_LOW THEN "InvalidYearException" ELSE ""

\* BookService._validate_year: the exception raised, "" for none
_validate_year(year) ==
    IF year < YEAR_LOW \/ year > current_year
    THEN "InvalidYearException"
    ELSE ""

\* BookService._validate_book_data (book_service.py): the year only
_validate_book_data(data) == _validate_year(data.year)

\* Python truthiness of an Optional[str]
Truthy(opt) == opt # {} /\ The(opt) # <<>>

\* getattr(BookMapper, method)(row): what the call gives its caller
MapperCall(method, row) ==
    IF method \in BookMapperMethods
    THEN [outcome |-> "ok", ret |-> {row}]
    ELSE [outcome |-> "AttributeError", ret |-> {}]

Strip(s) == SelectSeq(s, LAMBDA c : c \notin {"-", " "})

\* api/v1/schemas/book.py BookBase.validate_isbn_format and the Field bounds
IsbnFormatOk(opt) ==
    \/ opt = {}
    \/ LET v == The(opt)
           clean == Strip(v)
       IN  /\ Len(v) >= ISBN_MIN_LENGTH
           /\ Len(v) <= ISBN_MAX_LENGTH
           /\ Len(clean) \in {10, 13}
           /\ \A i \in 1..(Len(clean) - 1) : clean[i] \in Digits

\* BookResponse(...) of api/v1/schemas/book.py accepts the row
ResponseValid(row) ==
    /\ Len(row.title) >= 1
    /\ Len(row.author) >= 1
    /\ row.year >= YEAR_LOW /\ row.year <= YEAR_MAX
    /\ row.year <= current_year
    /\ row.genre # ""
    /\ row.pages >= PAGES_MIN /\ row.pages <= PAGES_MAX
    /\ IsbnFormatOk(row.isbn)

\* BookMapper.model_to_response as called by book_service_v2: any exception of
\* the conversion becomes InvalidBookDataException, which the service's
\* `except Exception` wraps into ServiceException
model_to_response(opt_row) ==
    IF opt_row # {} /\ ResponseValid(The(opt_row))
    THEN [outcome |-> "ok", ret |-> opt_row]
    ELSE [outcome |-> "ServiceException", ret |-> {}]

-----------------------------------------------------------------------------
(* Enrichment (external/openlibrary/client.py) *)

\* what one search request ends with, after the retry loop of _request
SearchOutcomes ==
    {"timeout", "http_error", "unexpected", "no_docs", "empty_doc", "doc"}

\* search_by_isbn / search_by_title_author: [raised, result]; the result is the
\* extracted map, {} the empty map
SearchResult(o) ==
    CASE o = "timeout" -> [raised |-> "OpenLibraryTimeoutException", result |-> {}]
      [] o = "http_error" -> [raised |-> "OpenLibraryException", result |-> {}]
      [] o = "doc" -> [raised |-> "", result |-> {"cover_url"}]
      [] OTHER -> [raised |-> "", result |-> {}]

\* an enrich that never falls back on the title and the author when an
\* ISBN is given
enrich_isbn_only(isbn, o_isbn, o_title) ==
    IF Truthy(isbn) THEN SearchResult(o_isbn) ELSE SearchResult(o_title)

\* OpenLibraryClient.enrich: ISBN first, then title + author
enrich(isbn, o_isbn, o_title) ==
    LET first == SearchResult(o_isbn)
    IN  IF Truthy(isbn) /\ first.raised # "" THEN first
        ELSE IF Truthy(isbn) /\ first.result # {} THEN first
        ELSE SearchResult(o_title)

\* BookService._enrich_book_data: Optional[dict], the errors swallowed
_enrich_book_data(data, o_isbn, o_title) ==
    LET e == enrich(data.isbn, o_isbn, o_title)
    IN  IF e.raised \in {"OpenLibraryException", "OpenLibraryTimeoutException"}
        THEN {}
        ELSE IF e.result # {} THEN {e.result} ELSE {}

\* the searches enrich makes, in order
enrich_searches(isbn, o_isbn) ==
    LET first == SearchResult(o_isbn)
    IN  IF ~Truthy(isbn) THEN <<"title_author">>
        ELSE IF first.raised # "" \/ first.result # {} THEN <<"isbn">>
        ELSE <<"isbn", "title_author">>

-----------------------------------------------------------------------------
(* The request loop (external/base/base_client.py) *)

\* OpenLibraryClient: retries=2
OpenLibraryRetries == 2

\* the largest `retries` a client is built with
MaxRetries == 3

\* what one attempt meets: a timeout, a response with a status code, or
\* another exception (connection error, invalid JSON)
Responses ==
    {[kind |-> "timeout", code |-> 0], [kind |-> "error", code |-> 0]}
    \cup {[kind |-> "status", code |-> c] : c \in {200, 404, 429, 500, 503}}

\* response.raise_for_status() raises HTTPStatusError
IsErrorStatus(resp) == resp.kind = "status" /\ resp.code >= 400

\* a loop that sleeps and goes round again after a timeout or a 5xx, on the
\* last attempt too
Retries_on_last(resp, attempt, retries) ==
    \/ resp.kind = "timeout"
    \/ IsErrorStatus(resp) /\ resp.code >= 500

\* a loop that retries every error status
Retries_any_status(resp, attempt, retries) ==
    \/ resp.kind = "timeout" /\ attempt # retries - 1
    \/ IsErrorStatus(resp) /\ attempt < retries - 1

\* the except clauses of _request: the attempt is followed by a sleep and
\* another round of the loop
Retries(resp, attempt, retries) ==
    \/ resp.kind = "timeout" /\ attempt # retries - 1
    \/ IsErrorStatus(resp) /\ resp.code >= 500 /\ attempt < retries - 1

\* what _request ends with when the attempt is not retried
RequestOutcome(resp) ==
    CASE resp.kind = "timeout" -> "TimeoutException"
      [] resp.kind = "error" -> "Exception"
      [] IsErrorStatus(resp) -> "HTTPStatusError"
      [] OTHER -> "returned"

NoCall == {}

\* the variables of the catalog, which the client does not touch
catalog == <<db, session, req, now, next_id, query, started, deleted, marked,
             failed, opened>>

\* the clients of a process that has started: the manager's reference
\* (_openlibrary), the instance's reference to its connection pool (_client),
\* how many of each were built, and the connection pools that are open
NoClients ==
    [_openlibrary |-> {}, _client |-> {}, instances |-> 0, pools |-> 0,
     live |-> {}, app |-> "running"]

\* ClientsManager.get_openlibrary: the instance, built when there is none
get_openlibrary(c) ==
    IF c._openlibrary = {}
    THEN [c EXCEPT !._openlibrary = {c.instances + 1}, !.instances = @ + 1]
    ELSE c

\* BaseApiClient.client: the httpx.AsyncClient, built when there is none
client(c) ==
    IF c._client = {}
    THEN [c EXCEPT !._client = {c.pools + 1}, !.pools = @ + 1,
                   !.live = @ \cup {c.pools + 1}]
    ELSE c

\* _request is called on the client the manager hands out, `retries` being
\* what the client was built with
StartRequest(retries) ==
    /\ call = NoCall /\ clients.app = "running"
    /\ call' = {[kind |-> "request", retries |-> retries, attempt |-> 0,
                 pc |-> "request", outcome |-> "", log |-> <<>>,
                 slept |-> <<>>]}
    /\ clients' = get_openlibrary(clients)
    /\ UNCHANGED catalog

\* one round of the for loop: self.client.request, and the except clause it
\* meets; the wait is counted in units of `backoff`
Attempt(resp) ==
    /\ call # NoCall
    /\ LET c == The(call)
       IN  /\ c.kind = "request" /\ c.pc = "request"
           /\ c.attempt < c.retries
           /\ call' =
                 IF Retries(resp, c.attempt, c.retries)
                 THEN {[c EXCEPT !.pc = "sleep", !.log = Append(@, resp),
                                 !.slept = Append(@, 2 ^ c.attempt)]}
                 ELSE {[c EXCEPT !.pc = "done", !.log = Append(@, resp),
                                 !.outcome = RequestOutcome(resp)]}
    /\ clients' = client(clients)
    /\ UNCHANGED catalog

\* asyncio.sleep(wait_time) is over: the next round
Sleep ==
    /\ call # NoCall
    /\ LET c == The(call)
       IN  /\ c.kind = "request" /\ c.pc = "sleep"
           /\ call' = {[c EXCEPT !.pc = "request", !.attempt = @ + 1]}
    /\ UNCHANGED <<catalog, clients>>

\* range(self.retries) is exhausted: the function falls off its end
ExitLoop ==
    /\ call # NoCall
    /\ LET c == The(call)
       IN  /\ c.kind = "request" /\ c.pc = "request"
           /\ c.attempt >= c.retries
           /\ call' = {[c EXCEPT !.pc = "done", !.outcome = "None"]}
    /\ UNCHANGED <<catalog, clients>>

\* OpenLibraryClient.enrich(title, author, isbn) on the client the manager
\* hands out, its two searches ending with o_isbn and o_title
EnrichCall(isbn, o_isbn, o_title) ==
    /\ call = NoCall /\ clients.app = "running"
    /\ call' = {[kind |-> "enrich", pc |-> "done", isbn |-> isbn,
                 o_isbn |-> o_isbn, o_title |-> o_title,
                 result |-> enrich(isbn, o_isbn, o_title),
                 searches |-> enrich_searches(isbn, o_isbn)]}
    /\ clients' = client(get_openlibrary(clients))
    /\ UNCHANGED catalog

\* the caller has its result
FinishCall ==
    /\ call # NoCall /\ The(call).pc = "done"
    /\ call' = NoCall
    /\ UNCHANGED <<catalog, clients>>

\* lifespan after its yield, once the server has drained its requests:
\* dispose_engine(), and nothing for the clients
Shutdown ==
    /\ clients.app = "running"
    /\ call = NoCall
    /\ clients' = [clients EXCEPT !.app = "stopped"]
    /\ UNCHANGED <<catalog, call>>

-----------------------------------------------------------------------------
(* The books table and the sessions *)

\* Book(**kwargs) flushed at time t: the column defaults of data/models/book.py
NewRow(data, extra, t) ==
    [title |-> data.title, author |-> data.author, year |-> data.year,
     genre |-> data.genre, pages |-> data.pages, isbn |-> data.isbn,
     description |-> data.description, extra |-> extra,
     available |-> TRUE, created_at |-> t, updated_at |-> t]

\* uuid.uuid4: an identifier never generated before
FreshId == next_id + 1

Idle ==
    [op |-> "idle", pc |-> "idle", book_id |-> 0, data |-> {}, upd |-> {},
     instance |-> {}, read |-> {}, extra |-> {}, outcome |-> "", ret |-> {},
     ol |-> {}, committed |-> FALSE, found |-> FALSE,
     after_delete |-> FALSE, after_marked |-> FALSE]

\* the flushed, uncommitted writes of the other sessions
OtherStaged(r) == UNION {session[s] : s \in Req \ {r}}

\* another open transaction has updated or deleted row id
RowLocked(r, id) ==
    \E c \in OtherStaged(r) : c.kind \in {"update", "delete"} /\ c.id = id

\* another open transaction has written an index entry for this ISBN
KeyBusy(r, isbn) ==
    /\ isbn # {}
    /\ \E c \in OtherStaged(r) :
          \/ c.kind \in {"insert", "update"} /\ c.row.isbn = isbn
          \/ c.kind \in {"update", "delete"} /\ c.id \in DOMAIN db
                /\ db[c.id].isbn = isbn

\* a books table without the unique constraint on isbn
UniqueViolation_none(id, isbn) == FALSE

\* the unique constraint on books.isbn: a row other than id holds the ISBN
UniqueViolation(id, isbn) ==
    isbn # {} /\ \E j \in DOMAIN db \ {id} : db[j].isbn = isbn

\* a faulty commit that loses the DELETE statements
Committed_no_delete(table, changes) ==
    IF changes = {} \/ (CHOOSE c \in changes : TRUE).kind = "delete" THEN table
    ELSE LET c == CHOOSE x \in changes : TRUE
         IN  [j \in DOMAIN table \cup {c.id} |->
                 IF j = c.id THEN c.row ELSE table[j]]

\* the table after a session's flushed writes are committed
Committed(table, changes) ==
    IF changes = {} THEN table
    ELSE LET c == The(changes)
         IN  IF c.kind = "delete"
             THEN [j \in DOMAIN table \ {c.id} |-> table[j]]
             ELSE [j \in DOMAIN table \cup {c.id} |->
                      IF j = c.id THEN c.row ELSE table[j]]

\* BookRepository.find_by_isbn: the rows with this ISBN
find_by_isbn(isbn) == {j \in DOMAIN db : db[j].isbn = isbn}

\* the value a column takes from a supplied field
Coerce(f, v) == IF f \in NullableColumns THEN v ELSE The(v)

\* a unit of work that writes every supplied field, changed or not
NetChanges_all(inst, upd) == DOMAIN upd

\* the supplied fields whose value differs from the loaded instance: the
\* columns the unit of work puts in its UPDATE
NetChanges(inst, upd) ==
    {f \in DOMAIN upd :
        IF f \in NullableColumns THEN upd[f] # inst[f]
        ELSE upd[f] = {} \/ The(upd[f]) # inst[f]}

\* an UPDATE whose column updated_at has no onupdate
ApplyUpdate_no_onupdate(row, upd, changed, t) ==
    [f \in DOMAIN row |-> IF f \in changed THEN Coerce(f, upd[f]) ELSE row[f]]

\* BaseRepository.update's setattr loop, then the UPDATE of the changed
\* columns on the current row, with onupdate=datetime.utcnow
ApplyUpdate(row, upd, changed, t) ==
    [f \in DOMAIN row |->
        IF f \in changed THEN Coerce(f, upd[f])
        ELSE IF f = "updated_at" THEN t
        ELSE row[f]]

Done(r, outcome, ret) ==
    req' = [req EXCEPT ![r].pc = "done", ![r].outcome = outcome, ![r].ret = ret]

\* slot r takes the next request (the slots are interchangeable: the lowest
\* idle one is used)
Accept(r) ==
    /\ req[r].op = "idle"
    /\ \A s \in 1..(r - 1) : req[s].op # "idle"
    /\ started < MaxRequests
    /\ started' = started + 1
    /\ opened' = opened \cup {r}


-----------------------------------------------------------------------------
(* BookService.create_book (book_service.py) *)

\* the call, up to its first await: step 1, _validate_book_data
StartCreate(r, d) ==
    /\ Accept(r)
    /\ LET err == _validate_book_data(d)
       IN  req' = [req EXCEPT ![r] =
                     [Idle EXCEPT !.op = "create", !.data = {d}, !.outcome = err,
                                  !.pc = IF err # "" THEN "done"
                                         ELSE IF Truthy(d.isbn) THEN "find_by_isbn"
                                         ELSE "enrich"]]
    /\ UNCHANGED <<db, session, now, next_id, deleted, query, marked, failed, call, clients>>

\* step 2: the ISBN lookup and the raise
CreateFindByIsbn(r) ==
    /\ req[r].op = "create" /\ req[r].pc = "find_by_isbn"
    /\ LET existing == find_by_isbn(The(req[r].data).isbn)
       IN  IF existing # {}
           THEN req' = [req EXCEPT ![r].pc = "done", ![r].found = TRUE,
                                   ![r].outcome = BookAlreadyExistsException(1)]
           ELSE req' = [req EXCEPT ![r].pc = "enrich"]
    /\ UNCHANGED <<db, session, now, next_id, deleted, query, started, marked, failed, call, opened, clients>>

\* step 3: _enrich_book_data, whatever the two searches end with
CreateEnrich(r, outcomes) ==
    /\ req[r].op = "create" /\ req[r].pc = "enrich"
    /\ \E o_isbn, o_title \in outcomes :
          LET d == The(req[r].data)
          IN  req' = [req EXCEPT
                        ![r].pc = "create",
                        ![r].ol = {enrich(d.isbn, o_isbn, o_title)},
                        ![r].extra = _enrich_book_data(d, o_isbn, o_title)]
    /\ UNCHANGED <<db, session, now, next_id, deleted, query, started, marked, failed, call, opened, clients>>

\* step 4: BaseRepository.create: add, flush (the INSERT), refresh
CreateFlush(r) ==
    /\ req[r].op = "create" /\ req[r].pc = "create"
    /\ LET d == The(req[r].data)
           row == NewRow(d, req[r].extra, now + 1)
       IN  /\ ~KeyBusy(r, d.isbn)
           /\ IF UniqueViolation(0, d.isbn)
              THEN /\ Done(r, "IntegrityError", {})
                   /\ UNCHANGED <<session, now, next_id>>
              ELSE /\ session' = [session EXCEPT ![r] =
                         {[kind |-> "insert", id |-> FreshId, row |-> row]}]
                   /\ req' = [req EXCEPT ![r].pc = "commit",
                                         ![r].book_id = FreshId,
                                         ![r].instance = {row}]
                   /\ now' = now + 1
                   /\ next_id' = FreshId
    /\ UNCHANGED <<db, deleted, query, started, marked, failed, call, opened, clients>>

\* session.commit() of create_book, update_book and delete_book, and the
\* return statement after it
Commit(r) ==
    /\ req[r].pc = "commit"
    /\ db' = Committed(db, session[r])
    /\ session' = [session EXCEPT ![r] = {}]
    /\ deleted' = IF req[r].op = "delete" THEN deleted \cup {req[r].book_id}
                  ELSE deleted
    /\ LET out == IF req[r].op = "delete" THEN [outcome |-> "ok", ret |-> {}]
                  ELSE MapperCall("to_response", The(req[r].instance))
       IN  req' = [req EXCEPT ![r].pc = "done", ![r].committed = TRUE,
                              ![r].outcome = out.outcome, ![r].ret = out.ret]
    /\ UNCHANGED <<now, next_id, query, started, marked, failed, call, opened, clients>>

\* a failed commit that leaves the transaction's writes in the table
CommitFail_durable(r) ==
    /\ req[r].pc = "commit"
    /\ db' = Committed(db, session[r])
    /\ session' = [session EXCEPT ![r] = {}]
    /\ Done(r, "CommitError", {})
    /\ failed' = IF req[r].op = "create" THEN failed \cup {req[r].book_id}
                 ELSE failed
    /\ UNCHANGED <<now, next_id, deleted, query, started, marked, call, opened, clients>>

\* session.commit() raises: the transaction is aborted, and get_db rolls the
\* session back
CommitFail(r) ==
    /\ req[r].pc = "commit"
    /\ session' = [session EXCEPT ![r] = {}]
    /\ Done(r, "CommitError", {})
    /\ failed' = IF req[r].op = "create" THEN failed \cup {req[r].book_id}
                 ELSE failed
    /\ UNCHANGED <<db, now, next_id, deleted, query, started, marked, call, opened, clients>>

\* a get_db that closes the session after a normal return only
Finish_no_finally(r) ==
    /\ req[r].pc = "done"
    /\ req' = [req EXCEPT ![r] = Idle]
    /\ session' = [session EXCEPT ![r] = {}]
    /\ opened' = IF req[r].outcome = "ok" THEN opened \ {r} ELSE opened
    /\ marked' = IF req[r].op = "unavailable" /\ req[r].outcome = "ok"
                 THEN marked \cup {req[r].book_id}
                 ELSE IF req[r].op = "available" /\ req[r].outcome = "ok"
                 THEN marked \ {req[r].book_id}
                 ELSE marked
    /\ UNCHANGED <<db, now, next_id, deleted, query, started, failed, call, clients>>

\* get_db after the handler: session.rollback() when the handler raised, and
\* session.close() in every case, which drops what was not committed
Finish(r) ==
    /\ req[r].pc = "done"
    /\ req' = [req EXCEPT ![r] = Idle]
    /\ session' = [session EXCEPT ![r] = {}]
    /\ opened' = opened \ {r}
    /\ marked' = IF req[r].op = "unavailable" /\ req[r].outcome = "ok"
                 THEN marked \cup {req[r].book_id}
                 ELSE IF req[r].op = "available" /\ req[r].outcome = "ok"
                 THEN marked \ {req[r].book_id}
                 ELSE marked
    /\ UNCHANGED <<db, now, next_id, deleted, query, started, failed, call, clients>>

-----------------------------------------------------------------------------
(* BookService.get_book_by_id *)

StartGet(r, id) ==
    /\ Accept(r)
    /\ req' = [req EXCEPT ![r] =
                 [Idle EXCEPT !.op = "get", !.pc = "get_by_id", !.book_id = id,
                              !.after_delete = (id \in deleted)]]
    /\ UNCHANGED <<db, session, now, next_id, deleted, query, marked, failed, call, clients>>

GetById(r) ==
    /\ req[r].op = "get" /\ req[r].pc = "get_by_id"
    /\ LET id == req[r].book_id
       IN  IF id \notin DOMAIN db
           THEN Done(r, "BookNotFoundException", {})
           ELSE LET out == MapperCall("to_response", db[id])
                IN  req' = [req EXCEPT ![r].pc = "done", ![r].instance = {db[id]},
                                       ![r].outcome = out.outcome,
                                       ![r].ret = out.ret]
    /\ UNCHANGED <<db, session, now, next_id, deleted, query, started, marked, failed, call, opened, clients>>

-----------------------------------------------------------------------------
(* BaseRepository.update after its own SELECT: setattr, flush, refresh *)

\* the UPDATE must wait for another open transaction
UpdateBlocked(r, id, inst, upd) ==
    LET changed == NetChanges(inst, upd)
    IN  /\ changed # {}
        /\ \/ RowLocked(r, id)
           \/ "isbn" \in changed /\ id \in DOMAIN db /\ KeyBusy(r, upd.isbn)

\* what flush and refresh do: the exception raised ("" for none), the row the
\* instance holds afterwards, and whether an UPDATE was written
FlushUpdate(id, inst, upd, t) ==
    LET changed == NetChanges(inst, upd)
    IN  IF changed = {}
        THEN IF id \in DOMAIN db
             THEN [raised |-> "", row |-> {db[id]}, write |-> FALSE]
             ELSE [raised |-> "InvalidRequestError", row |-> {}, write |-> FALSE]
        ELSE IF id \notin DOMAIN db
        THEN [raised |-> "StaleDataError", row |-> {}, write |-> FALSE]
        ELSE IF \E f \in changed \cap NotNullColumns : upd[f] = {}
        THEN [raised |-> "IntegrityError", row |-> {}, write |-> FALSE]
        ELSE IF "isbn" \in changed /\ UniqueViolation(id, upd.isbn)
        THEN [raised |-> "IntegrityError", row |-> {}, write |-> FALSE]
        ELSE [raised |-> "", write |-> TRUE,
              row |-> {ApplyUpdate(db[id], upd, changed, t)}]

-----------------------------------------------------------------------------
(* BookService.update_book (book_service.py) *)

StartUpdate(r, id, upd) ==
    /\ Accept(r)
    /\ req' = [req EXCEPT ![r] =
                 [Idle EXCEPT !.op = "update", !.pc = "get_by_id", !.book_id = id,
                              !.upd = {upd}, !.after_delete = (id \in deleted)]]
    /\ UNCHANGED <<db, session, now, next_id, deleted, query, marked, failed, call, clients>>

\* the existence check, then the year validation
UpdateGetById(r) ==
    /\ req[r].op = "update" /\ req[r].pc = "get_by_id"
    /\ LET id == req[r].book_id
           upd == The(req[r].upd)
           err == IF "year" \in DOMAIN upd /\ upd.year # {}
                  THEN _validate_year(The(upd.year)) ELSE ""
       IN  IF id \notin DOMAIN db
           THEN Done(r, "BookNotFoundException", {})
           ELSE req' = [req EXCEPT ![r].instance = {db[id]},
                                   ![r].read = {db[id]},
                                   ![r].outcome = err,
                                   ![r].pc = IF err # "" THEN "done"
                                             ELSE "update_select"]
    /\ UNCHANGED <<db, session, now, next_id, deleted, query, started, marked, failed, call, opened, clients>>

\* BaseRepository.update's get_by_id; on None update_book skips the commit and
\* passes None to the mapper
UpdateSelect(r) ==
    /\ req[r].op = "update" /\ req[r].pc = "update_select"
    /\ IF req[r].book_id \notin DOMAIN db
       THEN Done(r, "AttributeError", {})
       ELSE req' = [req EXCEPT ![r].pc = "update_flush"]
    /\ UNCHANGED <<db, session, now, next_id, deleted, query, started, marked, failed, call, opened, clients>>

UpdateFlush(r) ==
    /\ req[r].op = "update" /\ req[r].pc = "update_flush"
    /\ LET id == req[r].book_id
           inst == The(req[r].instance)
           upd == The(req[r].upd)
           f == FlushUpdate(id, inst, upd, now + 1)
       IN  /\ ~UpdateBlocked(r, id, inst, upd)
           /\ IF f.raised # ""
              THEN Done(r, f.raised, {}) /\ UNCHANGED <<session, now>>
              ELSE /\ req' = [req EXCEPT ![r].pc = "commit", ![r].instance = f.row]
                   /\ IF f.write
                      THEN /\ session' = [session EXCEPT ![r] =
                                 {[kind |-> "update", id |-> id, row |-> The(f.row)]}]
                           /\ now' = now + 1
                      ELSE UNCHANGED <<session, now>>
    /\ UNCHANGED <<db, next_id, deleted, query, started, marked, failed, call, opened, clients>>

-----------------------------------------------------------------------------
(* BookService.delete_book and BaseRepository.delete *)

StartDelete(r, id) ==
    /\ Accept(r)
    /\ req' = [req EXCEPT ![r] =
                 [Idle EXCEPT !.op = "delete", !.pc = "delete_select",
                              !.book_id = id]]
    /\ UNCHANGED <<db, session, now, next_id, deleted, query, marked, failed, call, clients>>

DeleteSelect(r) ==
    /\ req[r].op = "delete" /\ req[r].pc = "delete_select"
    /\ LET id == req[r].book_id
       IN  IF id \notin DOMAIN db
           THEN Done(r, "BookNotFoundException", {})
           ELSE req' = [req EXCEPT ![r].pc = "delete_flush",
                                   ![r].instance = {db[id]}]
    /\ UNCHANGED <<db, session, now, next_id, deleted, query, started, marked, failed, call, opened, clients>>

\* session.delete and flush; a DELETE that matches no row only warns
DeleteFlush(r) ==
    /\ req[r].op = "delete" /\ req[r].pc = "delete_flush"
    /\ LET id == req[r].book_id
       IN  /\ ~RowLocked(r, id)
           /\ session' = [session EXCEPT ![r] =
                 IF id \in DOMAIN db
                 THEN {[kind |-> "delete", id |-> id, row |-> db[id]]}
                 ELSE {}]
    /\ req' = [req EXCEPT ![r].pc = "commit"]
    /\ UNCHANGED <<db, now, next_id, deleted, query, started, marked, failed, call, opened, clients>>

-----------------------------------------------------------------------------
(* BookService.mark_book_as_unavailable (book_service_v2.py) *)

StartUnavailable(r, id) ==
    /\ Accept(r)
    /\ req' = [req EXCEPT ![r] =
                 [Idle EXCEPT !.op = "unavailable", !.pc = "get_by_id",
                              !.book_id = id, !.upd = {[available |-> {FALSE}]},
                              !.after_marked = (id \in marked)]]
    /\ UNCHANGED <<db, session, now, next_id, deleted, query, marked, failed, call, clients>>

MarkGetById(r) ==
    /\ req[r].op = "unavailable" /\ req[r].pc = "get_by_id"
    /\ LET id == req[r].book_id
       IN  IF id \notin DOMAIN db
           THEN Done(r, "BookNotFoundException", {})
           ELSE IF ~db[id].available
           THEN req' = [req EXCEPT ![r].pc = "done", ![r].instance = {db[id]},
                                   ![r].read = {db[id]},
                                   ![r].outcome = "BookNotAvailableException"]
           ELSE req' = [req EXCEPT ![r].pc = "update_select",
                                   ![r].instance = {db[id]},
                                   ![r].read = {db[id]}]
    /\ UNCHANGED <<db, session, now, next_id, deleted, query, started, marked, failed, call, opened, clients>>

MarkSelect(r) ==
    /\ req[r].op = "unavailable" /\ req[r].pc = "update_select"
    /\ IF req[r].book_id \notin DOMAIN db
       THEN Done(r, model_to_response({}).outcome, {})
       ELSE req' = [req EXCEPT ![r].pc = "update_flush"]
    /\ UNCHANGED <<db, session, now, next_id, deleted, query, started, marked, failed, call, opened, clients>>

\* the flush of available=False and the return: no commit
MarkFlush(r) ==
    /\ req[r].op = "unavailable" /\ req[r].pc = "update_flush"
    /\ LET id == req[r].book_id
           inst == The(req[r].instance)
           upd == The(req[r].upd)
           f == FlushUpdate(id, inst, upd, now + 1)
           out == model_to_response(f.row)
       IN  /\ ~UpdateBlocked(r, id, inst, upd)
           /\ IF f.raised # ""
              THEN Done(r, "ServiceException", {}) /\ UNCHANGED <<session, now>>
              ELSE /\ req' = [req EXCEPT ![r].pc = "done", ![r].instance = f.row,
                                         ![r].outcome = out.outcome,
                                         ![r].ret = out.ret]
                   /\ IF f.write
                      THEN /\ session' = [session EXCEPT ![r] =
                                 {[kind |-> "update", id |-> id, row |-> The(f.row)]}]
                           /\ now' = now + 1
                      ELSE UNCHANGED <<session, now>>
    /\ UNCHANGED <<db, next_id, deleted, query, started, marked, failed, call, opened, clients>>

-----------------------------------------------------------------------------
(* BookService.mark_book_as_available (book_service_v2.py) *)

StartAvailable(r, id) ==
    /\ Accept(r)
    /\ req' = [req EXCEPT ![r] =
                 [Idle EXCEPT !.op = "available", !.pc = "get_by_id",
                              !.book_id = id, !.upd = {[available |-> {TRUE}]},
                              !.after_marked = (id \in marked)]]
    /\ UNCHANGED <<db, session, now, next_id, deleted, query, marked, failed, call, clients>>

\* the lookup; no test of the current availability
AvailableGetById(r) ==
    /\ req[r].op = "available" /\ req[r].pc = "get_by_id"
    /\ LET id == req[r].book_id
       IN  IF id \notin DOMAIN db
           THEN Done(r, "BookNotFoundException", {})
           ELSE req' = [req EXCEPT ![r].pc = "update_select",
                                   ![r].instance = {db[id]},
                                   ![r].read = {db[id]}]
    /\ UNCHANGED <<db, session, now, next_id, deleted, query, started, marked, failed, call, opened, clients>>

AvailableSelect(r) ==
    /\ req[r].op = "available" /\ req[r].pc = "update_select"
    /\ IF req[r].book_id \notin DOMAIN db
       THEN Done(r, model_to_response({}).outcome, {})
       ELSE req' = [req EXCEPT ![r].pc = "update_flush"]
    /\ UNCHANGED <<db, session, now, next_id, deleted, query, started, marked, failed, call, opened, clients>>

\* the flush of available=True and the return: no commit
AvailableFlush(r) ==
    /\ req[r].op = "available" /\ req[r].pc = "update_flush"
    /\ LET id == req[r].book_id
           inst == The(req[r].instance)
           upd == The(req[r].upd)
           f == FlushUpdate(id, inst, upd, now + 1)
           out == model_to_response(f.row)
       IN  /\ ~UpdateBlocked(r, id, inst, upd)
           /\ IF f.raised # ""
              THEN Done(r, "ServiceException", {}) /\ UNCHANGED <<session, now>>
              ELSE /\ req' = [req EXCEPT ![r].pc = "done", ![r].instance = f.row,
                                         ![r].outcome = out.outcome,
                                         ![r].ret = out.ret]
                   /\ IF f.write
                      THEN /\ session' = [session EXCEPT ![r] =
                                 {[kind |-> "update", id |-> id, row |-> The(f.row)]}]
                           /\ now' = now + 1
                      ELSE UNCHANGED <<session, now>>
    /\ UNCHANGED <<db, next_id, deleted, query, started, marked, failed, call, opened, clients>>

-----------------------------------------------------------------------------
(* BookRepository.find_by_filters / count_by_filters, BookService.search_books *)

\* str.lower on the letters of the sample values
Lower(c) ==
    CASE c = "A" -> "a" [] c = "B" -> "b" [] c = "C" -> "c" [] c = "X" -> "x"
      [] OTHER -> c

\* column ILIKE '%pat%', for a pat without the wildcards % and _
ILike(pat, str) ==
    \E i \in 0..(Len(str) - Len(pat)) :
        \A k \in 1..Len(pat) : Lower(str[i + k]) = Lower(pat[k])

NoFilters ==
    [title |-> {}, author |-> {}, genre |-> {}, year |-> {}, available |-> {}]

\* the WHERE clauses the `if` statements add to the statement
Where(row, f) ==
    /\ Truthy(f.title) => ILike(The(f.title), row.title)
    /\ Truthy(f.author) => ILike(The(f.author), row.author)
    /\ (f.genre # {} /\ The(f.genre) # "") => row.genre = The(f.genre)
    /\ (f.year # {} /\ The(f.year) # 0) => row.year = The(f.year)
    /\ f.available # {} => row.available = The(f.available)

RECURSIVE OrderByCreatedAtDesc(_)
\* ORDER BY created_at DESC
OrderByCreatedAtDesc(ids) ==
    IF ids = {} THEN <<>>
    ELSE LET m == CHOOSE i \in ids :
                     \A j \in ids : db[j].created_at <= db[i].created_at
         IN  <<m>> \o OrderByCreatedAtDesc(ids \ {m})

\* a faulty pagination: OFFSET applied as a page number
LimitOffset_page(seq, limit, offset) ==
    SubSeq(seq, offset * limit + 1,
           IF offset * limit + limit < Len(seq) THEN offset * limit + limit
           ELSE Len(seq))

\* LIMIT limit OFFSET offset
LimitOffset(seq, limit, offset) ==
    SubSeq(seq, offset + 1, IF offset + limit < Len(seq) THEN offset + limit
                            ELSE Len(seq))

find_by_filters(f, limit, offset) ==
    LimitOffset(OrderByCreatedAtDesc({i \in DOMAIN db : Where(db[i], f)}),
                limit, offset)

count_by_filters(f) == Cardinality({i \in DOMAIN db : Where(db[i], f)})

NoQuery == {}

\* find_by_filters and count_by_filters called one after the other with the
\* same filters, as search_books does (search_books has no `available`
\* argument of its own; the repository methods have)
StartSearch(f, limit, offset) ==
    /\ query = NoQuery
    /\ started < MaxRequests
    /\ started' = started + 1
    /\ query' = {[filters |-> f, limit |-> limit, offset |-> offset,
                  pc |-> "find", items |-> <<>>, total |-> 0,
                  seen |-> db, outcome |-> ""]}
    /\ UNCHANGED <<db, session, req, now, next_id, deleted, marked, failed, call, opened, clients>>

\* the first statement of search_books
SearchFind ==
    /\ query # NoQuery /\ The(query).pc = "find"
    /\ LET q == The(query)
       IN  query' = {[q EXCEPT !.pc = "count", !.seen = db,
                               !.items = find_by_filters(q.filters, q.limit,
                                                         q.offset)]}
    /\ UNCHANGED <<db, session, req, now, next_id, deleted, started, marked, failed, call, opened, clients>>

\* the second statement, and the return through the mapper
SearchCount ==
    /\ query # NoQuery /\ The(query).pc = "count"
    /\ LET q == The(query)
       IN  query' = {[q EXCEPT !.pc = "done", !.seen = db,
                               !.total = count_by_filters(q.filters),
                               !.outcome = MapperCall("to_responses", <<>>).outcome]}
    /\ UNCHANGED <<db, session, req, now, next_id, deleted, started, marked, failed, call, opened, clients>>

FinishSearch ==
    /\ query # NoQuery /\ The(query).pc = "done"
    /\ query' = NoQuery
    /\ UNCHANGED <<db, session, req, now, next_id, deleted, started, marked, failed, call, opened, clients>>

-----------------------------------------------------------------------------
(* BookService.get_books and BaseRepository.get_all *)

\* the parameters of BaseRepository.get_all
get_all_parameters == {"limit", "offset"}

\* calling a function with keyword arguments: TypeError for a keyword that is
\* not one of its parameters
CallWith(parameters, keywords) ==
    IF keywords \subseteq parameters THEN "" ELSE "TypeError"

\* get_books(skip, limit): the call self.book_repo.get_all(skip=skip,
\* limit=limit) raises before anything is awaited, which ends the request
StartList(r, skip, limit) ==
    /\ Accept(r)
    /\ LET err == CallWith(get_all_parameters, {"skip", "limit"})
       IN  req' = [req EXCEPT ![r] =
                     [Idle EXCEPT !.op = "list", !.outcome = err,
                                  !.data = {[skip |-> skip, limit |-> limit]},
                                  !.pc = "done"]]
    /\ UNCHANGED <<db, session, now, next_id, deleted, query, marked, failed, call, clients>>

-----------------------------------------------------------------------------
(* The handlers of api/v1/routers/books.py *)

\* "not found" in str(e).lower()
MessageHasNotFound(outcome) == outcome = "BookNotFoundException"

\* the status of the response, from what the service call ended with
HttpStatus(op, outcome) ==
    CASE outcome = "ok" ->
            (CASE op = "create" -> 201 [] op = "delete" -> 204 [] OTHER -> 200)
      [] outcome # "ok" /\ op \in {"get", "update", "delete"}
                       /\ MessageHasNotFound(outcome) -> 404
      [] OTHER -> 500

-----------------------------------------------------------------------------
(* Inputs *)

\* a book of the catalog at start, the t-th last inserted before the run
Stored(data, t) == NewRow(data, {}, 0 - t)

BookA == With(BaseBook, "isbn", {IsbnA})
BookC == With(With(BaseBook, "title", TitleC), "genre", "Fantasy")

\* catalogs the table may hold when the process starts
EmptyCatalog == <<>>
OneBook == <<Stored(BookA, 0)>>
ThreeBooks == <<Stored(BaseBook, 2), Stored(BookC, 1), Stored(BookA, 0)>>
\* a book checked out by a caller that committed its session
OneUnavailable == <<[Stored(BookA, 0) EXCEPT !.available = FALSE]>>

\* BookCreate objects; the fields of a pydantic model can be assigned after
\* validation, so the service also meets values the schema would refuse
CreateInputs == {BaseBook, BookA}

AllCreateInputs ==
    CreateInputs \cup
    {BookC,
     With(BaseBook, "year", YEAR_LOW), With(BaseBook, "year", YEAR_LOW - 1),
     With(BaseBook, "year", current_year + 1),
     With(BaseBook, "pages", 0), With(BaseBook, "pages", 0 - 1),
     With(BaseBook, "isbn", {IsbnShort}), With(BaseBook, "isbn", {IsbnEmpty}),
     With(BaseBook, "genre", "")}

\* BookUpdate.model_dump(exclude_unset=True): the fields the client set
UpdateInputs == {[genre |-> {"Fantasy"}], [genre |-> {"Novel"}], [isbn |-> {IsbnA}]}

AllUpdateInputs ==
    UpdateInputs \cup
    {[year |-> {current_year + 1}], [year |-> {YEAR_LOW}], [year |-> {}],
     [title |-> {}], [isbn |-> {}], [genre |-> {"Fantasy"}, pages |-> {0}],
     [title |-> {TitleC}, description |-> {"text"}]}

EnrichInputs == {"timeout", "doc"}

\* pagination arguments up to MaxPage
MaxPage == 2

SearchFilters ==
    {NoFilters,
     With(NoFilters, "title", {<<"a">>}), With(NoFilters, "title", {<<>>}),
     With(NoFilters, "author", {<<"X">>}),
     With(NoFilters, "genre", {"Fantasy"}), With(NoFilters, "genre", {""}),
     With(NoFilters, "year", {current_year}), With(NoFilters, "year", {0}),
     With(NoFilters, "available", {TRUE}), With(NoFilters, "available", {FALSE}),
     [NoFilters EXCEPT !.title = {<<"A", "B">>}, !.genre = {"Novel"}]}

\* identifiers a client may ask for: one never generated, and those generated
Targets == 0..next_id

-----------------------------------------------------------------------------
(* The system *)

InitWith(catalogs) ==
    /\ db \in catalogs
    /\ next_id = Len(db)
    /\ session = [r \in Req |-> {}]
    /\ req = [r \in Req |-> Idle]
    /\ now = 0
    /\ deleted = {}
    /\ marked = {}
    /\ failed = {}
    /\ call = NoCall
    /\ opened = {}
    /\ clients = NoClients
    /\ query = NoQuery
    /\ started = 0

\* the requests of slots R, over the given inputs
Requests(R, creates, updates, searches) ==
    \/ \E r \in R, d \in creates : StartCreate(r, d)
    \/ \E r \in R : CreateFindByIsbn(r)
    \/ \E r \in R : CreateEnrich(r, searches)
    \/ \E r \in R : CreateFlush(r)
    \/ \E r \in R : Commit(r)
    \/ \E r \in R : CommitFail(r)
    \/ \E r \in R : Finish(r)
    \/ \E r \in R, id \in Targets : StartGet(r, id)
    \/ \E r \in R : GetById(r)
    \/ \E r \in R, id \in Targets, u \in updates : StartUpdate(r, id, u)
    \/ \E r \in R : UpdateGetById(r)
    \/ \E r \in R : UpdateSelect(r)
    \/ \E r \in R : UpdateFlush(r)
    \/ \E r \in R, id \in Targets : StartDelete(r, id)
    \/ \E r \in R : DeleteSelect(r)
    \/ \E r \in R : DeleteFlush(r)
    \/ \E r \in R, id \in Targets : StartUnavailable(r, id)
    \/ \E r \in R : MarkGetById(r)
    \/ \E r \in R : MarkSelect(r)
    \/ \E r \in R : MarkFlush(r)
    \/ \E r \in R, id \in Targets : StartAvailable(r, id)
    \/ \E r \in R : AvailableGetById(r)
    \/ \E r \in R : AvailableSelect(r)
    \/ \E r \in R : AvailableFlush(r)
    \/ \E r \in R, skip \in 0..MaxPage, limit \in 1..MaxPage :
          StartList(r, skip, limit)

\* a search_books call, running beside the requests
Searches ==
    \/ \E f \in SearchFilters, limit \in 0..MaxPage, offset \in 0..MaxPage :
          StartSearch(f, limit, offset)
    \/ SearchFind
    \/ SearchCount
    \/ FinishSearch

Init == InitWith({EmptyCatalog, OneBook})

Next == Requests(Req, CreateInputs, UpdateInputs, EnrichInputs)

\* concurrent requests, each in its own session
Spec == Init /\ [][Next]_vars

InitInputs == InitWith({EmptyCatalog, OneBook, ThreeBooks, OneUnavailable})

NextInputs == Requests({1}, AllCreateInputs, AllUpdateInputs, SearchOutcomes)

\* one request at a time, over the full input sets
SpecInputs == InitInputs /\ [][NextInputs]_vars

InitSearch == InitWith({EmptyCatalog, ThreeBooks})

NextSearch ==
    \/ Requests({1}, CreateInputs, UpdateInputs, EnrichInputs)
    \/ Searches

\* search_books calls beside the requests that change the table
SpecSearch == InitSearch /\ [][NextSearch]_vars

-----------------------------------------------------------------------------
(* Properties *)

Finished(r, op) == req[r].op = op /\ req[r].pc = "done"

\* C1: in every reachable state, whatever creates, updates and deletes have
\* run or are running, no two persisted books hold the same non-null ISBN;
\* books without an ISBN are not restricted
C1_IsbnUnique ==
    \A i, j \in DOMAIN db :
        (i # j /\ db[i].isbn # {}) => db[i].isbn # db[j].isbn

\* a create lost the race for an ISBN that a persisted book now holds
C1_Witness ==
    \E r \in Req :
        /\ Finished(r, "create") /\ req[r].outcome = "IntegrityError"
        /\ \E i \in DOMAIN db : db[i].isbn = The(req[r].data).isbn

\* C2: a create_book whose ISBN lookup finds a persisted book ends with
\* BookAlreadyExistsException, with nothing staged and nothing committed
C2_DuplicateIsbnConflict ==
    \A r \in Req :
        (Finished(r, "create") /\ req[r].found)
            => /\ req[r].outcome = "BookAlreadyExistsException"
               /\ session[r] = {}
               /\ ~req[r].committed

\* the enrichment call of request r ended without metadata
EnrichmentFailed(r) ==
    /\ req[r].ol # {}
    /\ The(req[r].ol).raised # "" \/ The(req[r].ol).result = {}

\* C3: a create_book whose enrichment call timed out, failed or found nothing,
\* and that met no storage fault, has committed the book and returns it, with
\* extra absent
C3_CreateSurvivesEnrichment ==
    \A r \in Req :
        (/\ Finished(r, "create")
         /\ EnrichmentFailed(r)
         /\ req[r].outcome \notin {"IntegrityError", "CommitError"})
            => /\ req[r].outcome = "ok"
               /\ req[r].committed
               /\ req[r].book_id \in DOMAIN db
               /\ db[req[r].book_id].extra = {}
               /\ req[r].ret = {db[req[r].book_id]}

YearInRange(year) == YEAR_LOW <= year /\ year <= current_year

\* C4: every persisted book has YEAR_LOW <= year <= current_year, and a
\* create_book with a year outside that range ends at once with
\* InvalidYearException, having looked up, staged and committed nothing
C4_YearValidated ==
    /\ \A i \in DOMAIN db : YearInRange(db[i].year)
    /\ \A r \in Req :
          (req[r].op = "create" /\ ~YearInRange(The(req[r].data).year))
              => /\ req[r].pc = "done"
                 /\ req[r].outcome = "InvalidYearException"
                 /\ req[r].book_id = 0 /\ req[r].ol = {} /\ ~req[r].found
                 /\ session[r] = {} /\ ~req[r].committed

\* a create_book for next year was refused
C4_Witness ==
    \E r \in Req :
        /\ Finished(r, "create")
        /\ The(req[r].data).year = current_year + 1
        /\ req[r].outcome = "InvalidYearException"

\* C5: a create_book with pages <= 0 ends at once with InvalidPagesException:
\* no ISBN lookup, no enrichment call, nothing staged, nothing committed
C5_PagesValidated ==
    \A r \in Req :
        (req[r].op = "create" /\ The(req[r].data).pages <= 0)
            => /\ req[r].pc = "done"
               /\ req[r].outcome = "InvalidPagesException"
               /\ req[r].book_id = 0 /\ req[r].ol = {} /\ ~req[r].found
               /\ session[r] = {} /\ ~req[r].committed

\* C6: when create_book(b) has committed its record under id and a
\* get_book_by_id(id) has found that record, the create has returned, and the
\* get returns a record equal to b in every client-supplied field, with the
\* id, the timestamps and available = TRUE
C6_RoundTrip ==
    \A c, g \in Req :
        (/\ Finished(c, "create") /\ req[c].committed
         /\ Finished(g, "get") /\ req[g].book_id = req[c].book_id
         /\ req[g].instance # {})
            => /\ req[c].outcome = "ok"
               /\ req[g].outcome = "ok"
               /\ req[g].ret # {}
               /\ LET b == The(req[c].data)
                      got == The(req[g].ret)
                  IN  /\ \A f \in DOMAIN b : got[f] = b[f]
                      /\ got.available
                      /\ got.created_at > 0 /\ got.updated_at > 0
                      /\ req[g].book_id > 0

\* C7: once a delete_book(id) has committed, the id names no row again, no
\* new record is given that id, and every get_book_by_id(id) and
\* update_book(id, ...) called afterwards ends with BookNotFoundException
C7_DeletedStaysGone ==
    /\ deleted \cap DOMAIN db = {}
    /\ \A r \in Req : \A c \in session[r] :
          c.kind = "insert" => c.id \notin deleted
    /\ \A r \in Req :
          (req[r].op \in {"get", "update"} /\ req[r].pc = "done"
           /\ req[r].after_delete)
              => req[r].outcome = "BookNotFoundException"

\* an update called after the delete of its target was answered not-found
C7_Witness ==
    \E r \in Req :
        /\ Finished(r, "update") /\ req[r].after_delete
        /\ req[r].outcome = "BookNotFoundException"

\* the commit step of update request r
UpdateCommits(r) ==
    req[r].op = "update" /\ req[r].pc = "commit" /\ req'[r].committed

\* the commit of r leaves the other rows alone and gives the fields in
\* `written` their supplied values, the other fields but updated_at their old
\* values, and updated_at a later time
WritesExactly(r, written) ==
    LET id == req[r].book_id
        upd == The(req[r].upd)
    IN  /\ id \in DOMAIN db
        /\ DOMAIN db' = DOMAIN db
        /\ \A j \in DOMAIN db \ {id} : db'[j] = db[j]
        /\ \A f \in written : db'[id][f] = Coerce(f, upd[f])
        /\ \A f \in DOMAIN db[id] \ (written \cup {"updated_at"}) :
              db'[id][f] = db[id][f]
        /\ db'[id].updated_at > db[id].updated_at

\* the supplied fields whose value differs from the one request r read
Differing(r) ==
    LET upd == The(req[r].upd)
        was == The(req[r].read)
    IN  {f \in DOMAIN upd : Coerce(f, upd[f]) # was[f]}

\* C8 as stated: the commit of an update_book writes exactly the supplied
\* fields, leaves every other attribute, created_at and every other record
\* unchanged, and advances updated_at
C8_SuppliedFieldsWritten ==
    [][\A r \in Req :
          UpdateCommits(r) => WritesExactly(r, DOMAIN The(req[r].upd))]_vars

\* C8: the commit of an update_book writes exactly the supplied fields whose
\* value differs from the one the request read at its lookup, leaves every
\* other attribute, created_at and every other record unchanged, and advances
\* updated_at; when no supplied value differs, the table is left as it is
C8_PartialUpdate ==
    [][\A r \in Req :
          UpdateCommits(r) =>
              IF Differing(r) = {} THEN db' = db
              ELSE WritesExactly(r, Differing(r))]_vars

\* an update of the genre alone has been committed
C8_Witness ==
    \E r \in Req :
        /\ Finished(r, "update") /\ req[r].committed
        /\ The(req[r].upd) = [genre |-> {"Fantasy"}]
        /\ req[r].book_id \in DOMAIN db
        /\ LET was == The(req[r].read)
               row == db[req[r].book_id]
           IN  /\ was.genre = "Novel" /\ row.genre = "Fantasy"
               /\ row.updated_at > was.updated_at
               /\ row.created_at = was.created_at
               /\ row.isbn = was.isbn /\ row.title = was.title

\* the filter was given, and is not the empty value of its type
Given(opt, empty) == opt # {} /\ The(opt) # empty

\* the row satisfies every filter that was given
Matching(row, f) ==
    /\ Given(f.title, <<>>) => ILike(The(f.title), row.title)
    /\ Given(f.author, <<>>) => ILike(The(f.author), row.author)
    /\ Given(f.genre, "") => row.genre = The(f.genre)
    /\ Given(f.year, 0) => row.year = The(f.year)
    /\ f.available # {} => row.available = The(f.available)

\* the row satisfies every filter that is not None
MatchingExact(row, f) ==
    /\ f.title # {} => ILike(The(f.title), row.title)
    /\ f.author # {} => ILike(The(f.author), row.author)
    /\ f.genre # {} => row.genre = The(f.genre)
    /\ f.year # {} => row.year = The(f.year)
    /\ f.available # {} => row.available = The(f.available)

\* q.items is the page offset .. offset+limit-1 of the rows M of the table
\* q.seen, most recently created first
PageOf(q, M) ==
    LET n == Cardinality(M)
        rest == IF n > q.offset THEN n - q.offset ELSE 0
    IN  /\ Len(q.items) = IF q.limit < rest THEN q.limit ELSE rest
        /\ \A k \in 1..Len(q.items) :
              /\ q.items[k] \in M
              /\ Cardinality({j \in M : q.seen[j].created_at
                                           > q.seen[q.items[k]].created_at})
                     = q.offset + k - 1

C10_SecondMarkRefused ==
    /\ \A id \in marked \cap DOMAIN db : ~db[id].available
    /\ \A r \in Req :
          (Finished(r, "unavailable") /\ req[r].after_marked
           /\ req[r].book_id \in DOMAIN db)
              => req[r].outcome = "BookNotAvailableException"

C12_CommitFailure ==
    /\ failed \cap DOMAIN db = {}
    /\ \A r \in Req :
          (Finished(r, "create") /\ req[r].outcome = "CommitError")
              => /\ req[r].book_id \in failed
                 /\ req[r].ret = {} /\ ~req[r].committed
                 /\ session[r] = {}
    /\ \A r \in Req :
          (Finished(r, "get") /\ req[r].book_id \in failed)
              => req[r].outcome = "BookNotFoundException"

\* a later request asked for the book of a create whose commit had failed
C12_Witness ==
    \E r \in Req :
        /\ Finished(r, "get") /\ req[r].book_id \in failed
        /\ req[r].outcome = "BookNotFoundException"

\* C13: a create, update or delete request that ends successfully has
\* committed its transaction, and one that ends with an error has committed
\* nothing
C13_CommitDiscipline ==
    \A r \in Req :
        (req[r].op \in {"create", "update", "delete"} /\ req[r].pc = "done")
            => (req[r].committed <=> req[r].outcome = "ok")

\* the lookup of request r found the book
BookExisted(r) ==
    IF req[r].op = "update" THEN req[r].read # {} ELSE req[r].instance # {}

\* C14: POST /books answers 201 when the service has created the book, 422
\* when the service raised InvalidYearException or InvalidPagesException, 409
\* when the ISBN lookup found a duplicate, and 500 only after a storage fault
C14_PostStatus ==
    \A r \in Req :
        Finished(r, "create") =>
            LET st == HttpStatus("create", req[r].outcome)
            IN  /\ req[r].committed => st = 201
                /\ req[r].outcome \in {"InvalidYearException",
                                       "InvalidPagesException"} => st = 422
                /\ req[r].found => st = 409
                /\ st = 500 => req[r].outcome \in {"IntegrityError", "CommitError"}

\* C15: GET, PUT and DELETE /books/{id} answer 404 exactly when the lookup
\* found no book; a GET that found the book answers 200, a PUT that committed
\* answers 200 and a DELETE that committed answers 204
C15_ItemStatus ==
    \A r \in Req :
        (req[r].op \in {"get", "update", "delete"} /\ req[r].pc = "done") =>
            LET st == HttpStatus(req[r].op, req[r].outcome)
            IN  /\ st = 404 <=> ~BookExisted(r)
                /\ (req[r].op = "get" /\ BookExisted(r)) => st = 200
                /\ (req[r].op = "update" /\ req[r].committed) => st = 200
                /\ (req[r].op = "delete" /\ req[r].committed) => st = 204

\* C16: GET /books?skip=s&limit=l answers 200 with at most l books
C16_ListStatus ==
    \A r \in Req :
        Finished(r, "list") =>
            /\ HttpStatus("list", req[r].outcome) = 200
            /\ req[r].ret # {}
            /\ Len(The(req[r].ret)) <= The(req[r].data).limit

\* C17: when BaseRepository.update, called by update_book after its lookup
\* found the book, finds the book gone, update_book ends with
\* BookNotFoundException and commits nothing
C17_VanishedIsNotFound ==
    [][\A r \in Req :
          (/\ req[r].op = "update" /\ req[r].pc = "update_select"
           /\ req[r].book_id \notin DOMAIN db
           /\ req'[r].pc = "done")
              => /\ req'[r].outcome = "BookNotFoundException"
                 /\ ~req'[r].committed
                 /\ db' = db]_vars

InitClient == InitWith({EmptyCatalog})

NextClient ==
    \/ \E retries \in 0..MaxRetries : StartRequest(retries)
    \/ \E resp \in Responses : Attempt(resp)
    \/ Sleep
    \/ ExitLoop
    \/ \E isbn \in {{}, {IsbnA}, {IsbnEmpty}}, o_isbn, o_title \in SearchOutcomes :
          EnrichCall(isbn, o_isbn, o_title)
    \/ FinishCall
    \/ Shutdown

\* calls of the Open Library client
SpecClient == InitClient /\ [][NextClient]_vars

\* the same calls, run by an event loop that lets a pending request or sleep
\* complete
SpecClientFair == SpecClient /\ WF_vars(NextClient)

\* the calls of _request in progress
RequestCalls == {c \in call : c.kind = "request"}

\* a timeout or a 5xx status
Transient(resp) ==
    \/ resp.kind = "timeout"
    \/ resp.kind = "status" /\ resp.code >= 500

\* what the caller of _request sees raised for a response
Raised(resp) ==
    IF resp.kind = "timeout" THEN "TimeoutException" ELSE "HTTPStatusError"

C18_Bounded ==
    \A c \in RequestCalls :
        /\ Len(c.log) <= c.retries
        /\ \A i \in 1..Len(c.log) :
              Transient(c.log[i]) =>
                IF i < c.retries
                THEN \/ i < Len(c.log)
                     \/ c.pc = "sleep"
                     \/ c.pc = "request" /\ c.attempt = i /\ i < c.retries
                ELSE c.pc = "done" /\ c.outcome = Raised(c.log[i])
        /\ (c.pc = "done" /\ c.retries >= 1) =>
              c.outcome \in {"returned", "TimeoutException",
                             "HTTPStatusError", "Exception"}

\* C18: _request makes at most `retries` attempts (2 for Open Library); a
\* timeout or a 5xx status on an attempt that is not the last is followed by
\* another attempt, on the last attempt it is raised to the caller; and a
\* call with retries >= 1 always ends, by returning a result or raising
C18_RequestLoop ==
    /\ []C18_Bounded
    /\ \A n \in 1..(MaxRetries + 1) :
          (\E c \in RequestCalls : c.retries = n)
            ~> (\E c \in RequestCalls :
                   c.pc = "done" /\ c.outcome # "None" /\ c.outcome # "")

C18_Witness ==
    \E c \in RequestCalls :
        /\ c.retries = OpenLibraryRetries
        /\ c.log = <<[kind |-> "status", code |-> 503],
                     [kind |-> "timeout", code |-> 0]>>
        /\ c.pc = "done" /\ c.outcome = "TimeoutException"

\* C19: an HTTP error status below 500 is raised to the caller at once, on
\* whatever attempt it arrives: no attempt follows it and no backoff sleep
\* is taken for it
C19_ClientErrorRaised ==
    \A c \in RequestCalls :
        \A i \in 1..Len(c.log) :
            (c.log[i].kind = "status" /\ c.log[i].code \in 400..499) =>
                /\ i = Len(c.log)
                /\ c.pc = "done" /\ c.outcome = "HTTPStatusError"
                /\ Len(c.slept) = i - 1

C19_Witness ==
    \E c \in RequestCalls :
        /\ c.log = <<[kind |-> "timeout", code |-> 0],
                     [kind |-> "status", code |-> 404]>>
        /\ c.pc = "done" /\ c.outcome = "HTTPStatusError"
        /\ c.slept = <<1>>

\* the calls of enrich
EnrichCalls == {c \in call : c.kind = "enrich"}

\* a search that ended without raising
Answered(o) == SearchResult(o).raised = ""

\* a search whose answer is a non-empty map
Found(o) == Answered(o) /\ SearchResult(o).result # {}

\* C20: enrich searches by ISBN first when an ISBN is supplied and returns
\* that result, without the title-and-author query, when it is non-empty;
\* otherwise it returns the result of the title-and-author query; when
\* neither search finds a document the result is the empty map and nothing
\* is raised
C20_EnrichOrder ==
    \A c \in EnrichCalls :
        LET supplied == Truthy(c.isbn)
            emptyIsbn == Answered(c.o_isbn) /\ ~Found(c.o_isbn)
        IN  /\ supplied => c.searches[1] = "isbn"
            /\ (supplied /\ Found(c.o_isbn)) =>
                  /\ c.result = SearchResult(c.o_isbn)
                  /\ c.searches = <<"isbn">>
            /\ (~supplied \/ emptyIsbn) =>
                  /\ c.result = SearchResult(c.o_title)
                  /\ c.searches[Len(c.searches)] = "title_author"
            /\ ((~supplied \/ emptyIsbn)
                    /\ Answered(c.o_title) /\ ~Found(c.o_title)) =>
                  c.result = [raised |-> "", result |-> {}]

C20_Witness ==
    \E c \in EnrichCalls :
        /\ Truthy(c.isbn)
        /\ c.o_isbn = "no_docs" /\ c.o_title = "doc"
        /\ c.searches = <<"isbn", "title_author">>
        /\ c.result = SearchResult("doc")

-----------------------------------------------------------------------------
(* Properties of updates, sessions and concurrent requests *)

\* update request r found its target and supplies a year outside the range
YearRefused(r) ==
    /\ req[r].op = "update" /\ req[r].read # {}
    /\ LET upd == The(req[r].upd)
       IN  "year" \in DOMAIN upd /\ upd.year # {} /\ ~YearInRange(The(upd.year))

\* C21: an update_book of an existing book with a year outside
\* [YEAR_LOW, current_year] ends with InvalidYearException, has staged and
\* committed nothing, and leaves the target as it was read; and every
\* persisted book has its year in that range whatever creates and updates ran
C21_UpdateYearValidated ==
    /\ \A i \in DOMAIN db : YearInRange(db[i].year)
    /\ \A r \in Req :
          YearRefused(r)
              => /\ req[r].pc = "done"
                 /\ req[r].outcome = "InvalidYearException"
                 /\ session[r] = {} /\ ~req[r].committed
                 /\ req[r].book_id \in DOMAIN db
                 /\ db[req[r].book_id] = The(req[r].read)

\* an update to next year was refused
C21_Witness ==
    \E r \in Req :
        /\ Finished(r, "update") /\ YearRefused(r)
        /\ The(req[r].upd) = [year |-> {current_year + 1}]
        /\ req[r].outcome = "InvalidYearException"

\* C22: the session get_db opened for a request is closed when the request
\* ends, after a normal return as after an exception, the uncommitted writes
\* of the session being discarded and never reaching the table: no request
\* ends while holding its session
C22_SessionReleased ==
    /\ [](\A r \in Req :
            /\ req[r].op = "idle" => (r \notin opened /\ session[r] = {})
            /\ req[r].op # "idle" => r \in opened)
    /\ [][\A r \in Req :
            (req[r].pc = "done" /\ req'[r].op = "idle")
                => /\ r \in opened /\ r \notin opened'
                   /\ session'[r] = {}
                   /\ db' = db]_vars

\* every request is over and has released its session, one of them a create
\* whose commit raised
C22_Witness ==
    /\ failed # {}
    /\ \A r \in Req : req[r].op = "idle"
    /\ opened = {}

\* C23: no connection pool exists before the enrichment client is first used,
\* at most one instance and one pool are open at a time, and once the
\* shutdown sequence is over no connection pool is open
C23_ClientClosedAtShutdown ==
    /\ clients._openlibrary = {} => clients.live = {}
    /\ Cardinality(clients._openlibrary) <= 1
    /\ Cardinality(clients.live) <= 1
    /\ clients.app = "stopped" => clients.live = {}

\* the rows of the table and the rows written by the open transactions
RowsWritten ==
    {db[i] : i \in DOMAIN db}
    \cup {c.row : c \in UNION {session[r] : r \in Req}}

\* C24: every persisted book, and every row an open transaction has written,
\* has updated_at >= created_at; no step changes the created_at of a book;
\* an UPDATE written by a field update or an availability toggle carries the
\* time it was written as updated_at, and every change of a persisted book
\* moves its updated_at forward
C24_Timestamps ==
    /\ [](\A row \in RowsWritten : row.updated_at >= row.created_at)
    /\ [][/\ \A i \in DOMAIN db \cap DOMAIN db' :
                /\ db'[i].created_at = db[i].created_at
                /\ db'[i] # db[i] => db'[i].updated_at > db[i].updated_at
          /\ \A r \in Req : \A c \in session'[r] \ session[r] :
                c.kind = "update" =>
                    /\ c.row.updated_at = now' /\ now' > now
                    /\ c.row.created_at = db[c.id].created_at]_vars

\* a persisted book was modified after its creation
C24_Witness ==
    \E i \in DOMAIN db :
        /\ db[i].updated_at > db[i].created_at
        /\ db[i].genre = "Fantasy"

\* update request s has committed a change of the book that update request r
\* read before, and r has yet to commit
Overtaken(r, s) ==
    /\ r # s
    /\ req[r].op = "update" /\ req[r].pc = "commit"
    /\ Finished(s, "update") /\ req[s].committed
    /\ req[s].book_id = req[r].book_id
    /\ req[r].book_id \in DOMAIN db
    /\ The(req[r].read).updated_at < db[req[r].book_id].updated_at

\* C25: when two concurrent update_book requests on the same book commit one
\* after the other, both succeed, and every field supplied by both holds,
\* after the second commit, the value supplied by the second
C25_LastWriteWins ==
    [][\A r, s \in Req :
          (Overtaken(r, s) /\ req'[r].committed)
              => /\ req[s].outcome = "ok" /\ req'[r].outcome = "ok"
                 /\ \A f \in DOMAIN The(req[r].upd) \cap DOMAIN The(req[s].upd) :
                       db'[req[r].book_id][f] = Coerce(f, The(req[r].upd)[f])]_vars

\* C26: when two concurrent create_book requests carrying the same ISBN are
\* over, one of them having inserted its row and met no commit failure, that
\* one has committed and returned the book, the other has ended with
\* BookAlreadyExistsException and committed nothing, and exactly one
\* persisted book holds the ISBN
C26_ConcurrentDuplicate ==
    \A a, b \in Req :
        (/\ a # b
         /\ Finished(a, "create") /\ Finished(b, "create")
         /\ Truthy(The(req[a].data).isbn)
         /\ The(req[a].data).isbn = The(req[b].data).isbn
         /\ req[a].book_id # 0
         /\ req[a].outcome # "CommitError")
            => /\ req[a].outcome = "ok" /\ req[a].committed
               /\ req[b].outcome = "BookAlreadyExistsException"
               /\ ~req[b].committed
               /\ Cardinality(find_by_isbn(The(req[a].data).isbn)) = 1

\* C27: a create_book that ends by raising has committed no record, and one
\* that has committed its record returns it
C27_CreateAtomic ==
    \A r \in Req :
        Finished(r, "create") =>
            /\ req[r].outcome # "ok" =>
                  (~req[r].committed /\ req[r].book_id \notin DOMAIN db)
            /\ req[r].committed =>
                  (req[r].outcome = "ok" /\ req[r].ret = req[r].instance)

\* what a later request in a new session finds of the change request r
\* reported as made
Durable(r, table) ==
    LET id == req[r].book_id
    IN  CASE req[r].op = "create" -> id \in DOMAIN table
          [] req[r].op = "delete" -> id \notin DOMAIN table
          [] req[r].op = "unavailable" ->
                id \in DOMAIN table /\ ~table[id].available
          [] req[r].op = "available" ->
                id \in DOMAIN table /\ table[id].available
          [] req[r].op = "update" ->
                /\ id \in DOMAIN table
                /\ \A f \in DOMAIN The(req[r].upd) :
                      table[id][f] = Coerce(f, The(req[r].upd)[f])
          [] OTHER -> TRUE

\* C28: when a create, update, delete, mark-as-unavailable or
\* mark-as-available request that returned success is over and its session
\* closed, the table holds its change
C28_SuccessIsDurable ==
    [][\A r \in Req :
          (req[r].pc = "done" /\ req[r].outcome = "ok" /\ req'[r].op = "idle")
              => Durable(r, db')]_vars

\* C29: a mark_book_as_unavailable request during which another such request
\* for the same book succeeded does not succeed too: it ends with
\* BookNotAvailableException
C29_OneCheckout ==
    \A r \in Req :
        (/\ Finished(r, "unavailable")
         /\ ~req[r].after_marked
         /\ req[r].book_id \in marked
         /\ req[r].book_id \in DOMAIN db)
            => req[r].outcome = "BookNotAvailableException"

\* update request r found its target and supplies an ISBN that another
\* persisted book holds
IsbnTaken(r) ==
    /\ req[r].op = "update" /\ req[r].read # {}
    /\ LET upd == The(req[r].upd)
       IN  /\ "isbn" \in DOMAIN upd /\ upd.isbn # {}
           /\ \E j \in DOMAIN db \ {req[r].book_id} : db[j].isbn = upd.isbn

\* C30: an update_book that sets the ISBN of a book to one held by another
\* book ends with a conflict or validation error of the service, commits
\* nothing and leaves the target as it was read
C30_UpdateIsbnConflict ==
    \A r \in Req :
        (Finished(r, "update") /\ IsbnTaken(r))
            => /\ req[r].outcome \in {"BookAlreadyExistsException",
                                     "InvalidBookDataException"}
               /\ ~req[r].committed /\ session[r] = {}
               /\ req[r].book_id \in DOMAIN db
               /\ db[req[r].book_id] = The(req[r].read)

====
